---- MODULE Spec2Model ----
(***************************************************************************)
(* Model of the appsec remote-configuration core of dd-trace-go:           *)
(*   internal/appsec/ruleset_builder.go  (ruleset, rulesetFragment)        *)
(*   the remote-config handler file      (onRCUpdate and its helpers)      *)
(*                                                                         *)
(* Go values are modelled as follows.                                      *)
(*   - a slice is a sequence; a nil slice and an empty slice are both <<>> *)
(*     except where the code tells them apart (rulesOverrideEntry's        *)
(*     RulesTarget, see validateOverride);                                 *)
(*   - a Go map is a function whose DOMAIN is the set of keys; ranging     *)
(*     over a map visits the keys in an order the runtime picks, so every  *)
(*     such loop takes the order as a nondeterministic input;              *)
(*   - a JSON document is a function from the keys it carries to their    *)
(*     values; json.Unmarshal into a struct overwrites the fields whose    *)
(*     key the document carries and leaves the others as they were;        *)
(*   - an error is its message, the nil error is "".                       *)
(***************************************************************************)
EXTENDS Integers, Sequences, FiniteSets, TLC

VARIABLES
    rulesManager,   \* a.cfg.rulesManager: the committed ruleset
    started,        \* a.started: the engine's activation state
    wafRules,       \* the document the rule-evaluation engine last accepted
    last,           \* record of the last onRCUpdate call (inputs, locals, result)
    nBatches,       \* number of batches delivered so far
    workers,        \* concurrent deliveries: each callback's position and locals
    mg,             \* inputs and outputs of mergeRulesDataEntries applications
    cp,             \* a ruleset under repeated compile()/raw() calls
    pf              \* one application of validate() or newRuleset(): input and result

vars == <<rulesManager, started, wafRules, last, nBatches, workers, mg, cp, pf>>

----------------------------------------------------------------------------
(* Bounds *)

MaxBatches == 2
MaxConfigs == 2
MaxEntries == 2
MaxCompiles == 2

----------------------------------------------------------------------------
(* Generic helpers *)

NoErr == ""

\* m[k] = v on a Go map
Put(m, k, v) == [x \in (DOMAIN m) \cup {k} |-> IF x = k THEN v ELSE m[x]]

\* delete(m, k) on a Go map
Delete(m, k) == [x \in (DOMAIN m) \ {k} |-> m[x]]

EmptyMap == [x \in {} |-> 0]

\* every order in which a range loop can visit the key set S
Perms(S) ==
    {s \in [1..Cardinality(S) -> S] : \A x \in S : \E i \in 1..Cardinality(S) : s[i] = x}

Range(s) == {s[i] : i \in 1..Len(s)}

----------------------------------------------------------------------------
(* Apply statuses *)

Unacknowledged == "unacknowledged"
Acknowledged == "acknowledged"
StateError == "error"

\* the status with the test of ack made before the test of err
genApplyStatusAckFirst(ack, err) ==
    IF ack THEN [State |-> Acknowledged, Error |-> ""]
    ELSE IF err # NoErr THEN [State |-> StateError, Error |-> err]
    ELSE [State |-> Unacknowledged, Error |-> ""]

genApplyStatus(ack, err) ==
    IF err # NoErr THEN [State |-> StateError, Error |-> err]
    ELSE IF ack THEN [State |-> Acknowledged, Error |-> ""]
    ELSE [State |-> Unacknowledged, Error |-> ""]

statusesFromUpdate(u, ack, err) == [path \in DOMAIN u |-> genApplyStatus(ack, err)]

mergeMaps(m1, m2) ==
    [k \in (DOMAIN m1) \cup (DOMAIN m2) |-> IF k \in DOMAIN m2 THEN m2[k] ELSE m1[k]]

----------------------------------------------------------------------------
(* Payloads: raw bytes or the removal marker *)

NilPayload == [kind |-> "nil"]
BadPayload == [kind |-> "bad"]
DocPayload(d) == [kind |-> "doc", doc |-> d]

\* the error json.Unmarshal returns for a payload
UnmarshalErr(p) == IF p.kind = "doc" THEN NoErr ELSE "unexpected end of JSON input"

----------------------------------------------------------------------------
(* Ruleset fragments *)

Fields == {"Version", "Metadata", "Rules", "Overrides", "Exclusions", "RulesData", "Actions"}

\* the zero value of rulesetFragment
ZeroFragment ==
    [Version |-> "", Metadata |-> "", Rules |-> <<>>, Overrides |-> <<>>,
     Exclusions |-> <<>>, RulesData |-> <<>>, Actions |-> <<>>]

\* json.Unmarshal(doc, &f): fields whose key doc carries are overwritten
Unmarshal(doc, f) == [k \in Fields |-> IF k \in DOMAIN doc THEN doc[k] ELSE f[k]]

\* the embedded default rules document
staticRecommendedRules ==
    [Version |-> "2.2", Metadata |-> "rules_version:1", Rules |-> <<"crs-913-110">>]

Default(f) == Unmarshal(staticRecommendedRules, f)

defaultRulesFragment == Default(ZeroFragment)

NilSlice == [isNil |-> TRUE, elems |-> <<>>]
Slice(s) == [isNil |-> FALSE, elems |-> s]

validateOverride(o) == Len(o.ID) > 0 \/ ~o.RulesTarget.isNil

validateExclusion(e) ==
    Len(e.Inputs) > 0 \/ Len(e.Conditions) > 0 \/ Len(e.RulesTarget) > 0

validate(f) ==
    /\ \A i \in 1..Len(f.Overrides) : validateOverride(f.Overrides[i])
    /\ \A i \in 1..Len(f.Exclusions) : validateExclusion(f.Exclusions[i])

----------------------------------------------------------------------------
(* The ruleset manager *)

newRuleset(rules) ==
    LET f0 == Default(ZeroFragment)
        f == IF rules.kind = "doc" THEN Unmarshal(rules.doc, f0) ELSE f0
    IN [latest |-> f, base |-> f, basePath |-> "", edits |-> EmptyMap]

clone(r) == r

changeBase(r, f, path) == [r EXCEPT !.base = f, !.basePath = path]

addEdit(r, name, f) == [r EXCEPT !.edits = Put(@, name, f)]

removeEdit(r, name) == [r EXCEPT !.edits = Delete(@, name)]

\* the loop without the append of line 133
RECURSIVE compileLoopNoActions(_, _, _, _)
compileLoopNoActions(latest, edits, order, i) ==
    IF i > Len(order) THEN latest
    ELSE LET v == edits[order[i]]
         IN compileLoopNoActions([latest EXCEPT !.Overrides = @ \o v.Overrides,
                                                !.Exclusions = @ \o v.Exclusions],
                                 edits, order, i + 1)

\* the loop with an append of the edits' RulesData
RECURSIVE compileLoopWithData(_, _, _, _)
compileLoopWithData(latest, edits, order, i) ==
    IF i > Len(order) THEN latest
    ELSE LET v == edits[order[i]]
         IN compileLoopWithData([latest EXCEPT !.Overrides = @ \o v.Overrides,
                                               !.Exclusions = @ \o v.Exclusions,
                                               !.Actions = @ \o v.Actions,
                                               !.RulesData = @ \o v.RulesData],
                                edits, order, i + 1)

\* the loop of compile(): order is the order in which range visits r.edits
RECURSIVE compileLoop(_, _, _, _)
compileLoop(latest, edits, order, i) ==
    IF i > Len(order) THEN latest
    ELSE LET v == edits[order[i]]
         IN compileLoop([latest EXCEPT !.Overrides = @ \o v.Overrides,
                                       !.Exclusions = @ \o v.Exclusions,
                                       !.Actions = @ \o v.Actions],
                        edits, order, i + 1)

\* compile() keeping the compiled lists in r.base as well
compileIntoBase(r, order) ==
    LET base == IF Len(r.base.Rules) = 0 THEN Default(r.base) ELSE r.base
        latest == compileLoop(base, r.edits, order, 1)
    IN [r EXCEPT !.base = latest, !.latest = latest]

compileDropFirst(r, order) ==
    LET base == IF Len(r.base.Rules) = 0 THEN Default(r.base) ELSE r.base
    IN [r EXCEPT !.base = base, !.latest = compileLoop(base, r.edits, order, 2)]

compile(r, order) ==
    LET base == IF Len(r.base.Rules) = 0 THEN Default(r.base) ELSE r.base
    IN [r EXCEPT !.base = base, !.latest = compileLoop(base, r.edits, order, 1)]

\* json.Marshal of one rulesOverrideEntry: rules_target is omitempty
marshalOverride(o) == [ID |-> o.ID, RulesTarget |-> o.RulesTarget.elems]

IsEmptyField(k, v) == IF k \in {"Version", "Metadata"} THEN v = "" ELSE Len(v) = 0

\* json.Marshal(r.latest): every field is omitempty
raw(r) ==
    LET f == r.latest
        kept == {k \in Fields : ~IsEmptyField(k, f[k])}
    IN [k \in kept |->
          IF k = "Overrides"
          THEN [i \in 1..Len(f.Overrides) |-> marshalOverride(f.Overrides[i])]
          ELSE f[k]]

----------------------------------------------------------------------------
(* Rules data *)

RECURSIVE mergeFirst(_, _, _)
mergeFirst(m, entries1, i) ==
    IF i > Len(entries1) THEN m
    ELSE mergeFirst(Put(m, entries1[i].Value, entries1[i].Expiration), entries1, i + 1)

replacesAlways(m, entry) == TRUE

\* the test of line 241
replaces(m, entry) ==
    \/ entry.Value \notin DOMAIN m
    \/ entry.Expiration = 0
    \/ entry.Expiration > m[entry.Value]

RECURSIVE mergeSecond(_, _, _)
mergeSecond(m, entries2, i) ==
    IF i > Len(entries2) THEN m
    ELSE mergeSecond(IF replaces(m, entries2[i])
                     THEN Put(m, entries2[i].Value, entries2[i].Expiration)
                     ELSE m,
                     entries2, i + 1)

\* mergeMap when the last loop of mergeRulesDataEntries starts
mergeMapOf(entries1, entries2) ==
    mergeSecond(mergeFirst(EmptyMap, entries1, 1), entries2, 1)

\* the slices the last loop can build from mergeMap
SlicesOfMap(m) ==
    {[i \in 1..Len(o) |-> [Value |-> o[i], Expiration |-> m[o[i]]]] : o \in Perms(DOMAIN m)}

\* the set of slices mergeRulesDataEntries can return
mergeRulesDataEntries(entries1, entries2) == SlicesOfMap(mergeMapOf(entries1, entries2))

\* a returned slice read back as value -> expiration (values in it are unique)
AsMap(entries) ==
    [v \in {entries[i].Value : i \in 1..Len(entries)} |->
        (CHOOSE e \in Range(entries) : e.Value = v).Expiration]

\* the loop of lines 206-217 over one config's entries
RECURSIVE mergeEntries(_, _, _)
mergeEntries(all, rulesData, i) ==
    IF i > Len(rulesData) THEN all
    ELSE LET ruleData == rulesData[i]
             key == <<ruleData.ID, ruleData.Type>>
         IN mergeEntries(
              IF key \in DOMAIN all
              THEN LET data == all[key].entry
                       merged == CHOOSE s \in mergeRulesDataEntries(data.Data, ruleData.Data) : TRUE
                   IN Put(all, key, [entry |-> [data EXCEPT !.Data = merged], merged |-> TRUE])
              ELSE Put(all, key, [entry |-> ruleData, merged |-> FALSE]),
              rulesData, i + 1)

\* the loop of lines 187-218: order is the order in which range visits u
RECURSIVE mergeConfigs(_, _, _, _)
mergeConfigs(all, u, order, i) ==
    IF i > Len(order) THEN all
    ELSE LET rawp == u[order[i]]
         IN mergeConfigs(IF rawp.kind = "doc"
                         THEN mergeEntries(all, rawp.doc.rules_data, 1)
                         ELSE all,
                         u, order, i + 1)

\* the loop of lines 221-226; a merged Data slice has the order of line 247
RECURSIVE aggregate(_, _, _)
aggregate(all, korder, i) ==
    IF i > Len(korder) THEN {<<>>}
    ELSE LET g == all[korder[i]]
             datas == IF g.merged THEN SlicesOfMap(AsMap(g.entry.Data)) ELSE {g.entry.Data}
         IN {<<[g.entry EXCEPT !.Data = d]>> \o rest :
                d \in datas, rest \in aggregate(all, korder, i + 1)}

mergeRulesDataStatusesAckNil(u) ==
    [path \in DOMAIN u |->
        IF u[path].kind = "bad" THEN genApplyStatus(FALSE, UnmarshalErr(u[path]))
        ELSE genApplyStatus(TRUE, NoErr)]

\* the statuses of lines 185, 195 and 201
mergeRulesDataStatuses(u) ==
    [path \in DOMAIN u |->
        IF u[path].kind = "nil" THEN genApplyStatus(FALSE, NoErr)
        ELSE IF u[path].kind = "bad" THEN genApplyStatus(FALSE, UnmarshalErr(u[path]))
        ELSE genApplyStatus(TRUE, NoErr)]

\* mergeRulesData giving up the merge at a config that fails to parse
mergeRulesDataAbort(u) ==
    {[rulesData |-> rd, statuses |-> mergeRulesDataStatuses(u)] :
        rd \in IF \E q \in DOMAIN u : u[q].kind = "bad" THEN {<<>>}
               ELSE UNION {
                      LET all == mergeConfigs([x \in {} |-> 0], u, order, 1)
                      IN UNION {aggregate(all, korder, 1) : korder \in Perms(DOMAIN all)}
                      : order \in Perms(DOMAIN u)}}

\* the set of results mergeRulesData(u) can return
mergeRulesData(u) ==
    {[rulesData |-> rd, statuses |-> mergeRulesDataStatuses(u)] :
        rd \in UNION {
            LET all == mergeConfigs([x \in {} |-> 0], u, order, 1)
            IN UNION {aggregate(all, korder, 1) : korder \in Perms(DOMAIN all)}
            : order \in Perms(DOMAIN u)}}

----------------------------------------------------------------------------
(* The engine: external collaborators of the handler *)

\* a.start(): ok tells whether the engine could be initialised
start(isStarted, ok) == [started |-> IF ok THEN TRUE ELSE isStarted,
                         err |-> IF ok THEN NoErr ELSE "appsec: could not start"]

\* a.stop()
stop(isStarted) == FALSE

\* a.swapWAF(data): ok tells whether the engine accepted the document
swapWAF(ok) == IF ok THEN NoErr ELSE "appsec: could not apply the new rules"

----------------------------------------------------------------------------
(* handleASMFeatures *)

\* lines 161-171 without the stop of lines 168-170
toggleNoStop(isStarted, rawp, st) ==
    LET parseErr == UnmarshalErr(rawp)
        enabled == rawp.kind = "doc" /\ rawp.doc.enabled
    IN IF parseErr # NoErr
       THEN [err |-> parseErr, started |-> isStarted, startErr |-> NoErr]
       ELSE IF enabled /\ ~isStarted
       THEN [err |-> st.err, started |-> st.started, startErr |-> st.err]
       ELSE [err |-> NoErr, started |-> isStarted, startErr |-> NoErr]

\* lines 161-171: the branch a payload takes; st is what a.start() returns
\* when it is called.  err is the local err of line 151, startErr the error
\* of the a.start() call of line 165 ("" when it is not called)
toggle(isStarted, rawp, st) ==
    LET parseErr == UnmarshalErr(rawp)
        enabled == rawp.kind = "doc" /\ rawp.doc.enabled
    IN IF parseErr # NoErr
       THEN [err |-> parseErr, started |-> isStarted, startErr |-> NoErr]
       ELSE IF enabled /\ ~isStarted
       THEN [err |-> st.err, started |-> st.started, startErr |-> st.err]
       ELSE IF ~enabled /\ isStarted
       THEN [err |-> NoErr, started |-> stop(isStarted), startErr |-> NoErr]
       ELSE [err |-> NoErr, started |-> isStarted, startErr |-> NoErr]

toggleStatusAck(err) == [State |-> Acknowledged, Error |-> ""]

\* lines 150 and 172-175: the status of the config
toggleStatus(err) ==
    IF err # NoErr THEN genApplyStatus(FALSE, err)
    ELSE [State |-> Acknowledged, Error |-> ""]

\* handleASMFeatures without the early return of lines 144-147: every config
\* of the category is applied
handleASMFeaturesAll(isStarted, u, startOK) ==
    LET statuses == statusesFromUpdate(u, FALSE, NoErr)
        on == \E q \in DOMAIN u : u[q].kind = "doc" /\ u[q].doc.enabled
    IN [statuses |-> [q \in DOMAIN u |->
                        IF u[q].kind = "nil" THEN statuses[q]
                        ELSE toggleStatus(UnmarshalErr(u[q]))],
        started |-> IF on THEN TRUE ELSE isStarted,
        startErr |-> NoErr]

handleASMFeatures(isStarted, u, startOK) ==
    LET statuses == statusesFromUpdate(u, FALSE, NoErr)
    IN IF Cardinality(DOMAIN u) # 1
       THEN [statuses |-> statuses, started |-> isStarted, startErr |-> NoErr]
       ELSE LET path == CHOOSE q \in DOMAIN u : TRUE
                rawp == u[path]
            IN IF rawp.kind = "nil"
               THEN [statuses |-> statuses, started |-> stop(isStarted), startErr |-> NoErr]
               ELSE LET t == toggle(isStarted, rawp, start(isStarted, startOK))
                    IN [statuses |-> Put(statuses, path, toggleStatus(t.err)),
                        started |-> t.started, startErr |-> t.startErr]

----------------------------------------------------------------------------
(* onRCUpdate: the categories of lines 69-123.  A category step maps the   *)
(* locals [r, statuses, added] to their next value; added collects the     *)
(* paths addEdit was called with.                                          *)

ProductASMFeatures == "ASM_FEATURES"
ProductASMData == "ASM_DATA"
ProductASMDD == "ASM_DD"
ProductASM == "ASM"

\* the category appending the merged rules data to the edit already stored
caseASMDataAccumulate(loc, u, md) ==
    LET old == IF "asmdata" \in DOMAIN loc.r.edits THEN loc.r.edits["asmdata"].RulesData ELSE <<>>
    IN [loc EXCEPT !.statuses = mergeMaps(@, md.statuses),
                   !.r = addEdit(@, "asmdata", [ZeroFragment EXCEPT !.RulesData = old \o md.rulesData]),
                   !.added = @ \cup {"asmdata"}]

\* case rc.ProductASMData: md is the result mergeRulesData(u) returned
caseASMData(loc, u, md) ==
    [loc EXCEPT !.statuses = mergeMaps(@, md.statuses),
                !.r = addEdit(@, "asmdata", [ZeroFragment EXCEPT !.RulesData = md.rulesData]),
                !.added = @ \cup {"asmdata"}]

caseASMDDApplyAll(loc, u) ==
    LET path == CHOOSE q \in DOMAIN u : u[q].kind = "doc" \/ \A o \in DOMAIN u : u[o].kind # "doc"
        data == u[path]
    IN IF data.kind = "doc"
       THEN [loc EXCEPT !.r = changeBase(@, Unmarshal(data.doc, ZeroFragment), path),
                        !.statuses = Put(@, path, genApplyStatus(TRUE, NoErr))]
       ELSE loc

\* the category with a changeBase that does not record the config's path
caseASMDDKeepPath(loc, u) ==
    IF Cardinality(DOMAIN u) > 1
    THEN [loc EXCEPT !.statuses =
            mergeMaps(@, statusesFromUpdate(u, TRUE, "More than one config received for ASM_DD"))]
    ELSE IF DOMAIN u = {} THEN loc
    ELSE LET path == CHOOSE q \in DOMAIN u : TRUE
             data == u[path]
         IN IF data.kind = "nil"
            THEN [loc EXCEPT !.r = changeBase(@, defaultRulesFragment, loc.r.basePath)]
            ELSE IF data.kind = "bad"
            THEN [loc EXCEPT !.statuses = Put(@, path, genApplyStatus(TRUE, UnmarshalErr(data)))]
            ELSE [loc EXCEPT !.r = changeBase(@, Unmarshal(data.doc, ZeroFragment), loc.r.basePath),
                             !.statuses = Put(@, path, genApplyStatus(TRUE, NoErr))]

\* case rc.ProductASMDD
caseASMDD(loc, u) ==
    IF Cardinality(DOMAIN u) > 1
    THEN [loc EXCEPT !.statuses =
            mergeMaps(@, statusesFromUpdate(u, TRUE, "More than one config received for ASM_DD"))]
    ELSE IF DOMAIN u = {} THEN loc
    ELSE LET path == CHOOSE q \in DOMAIN u : TRUE
             data == u[path]
         IN IF data.kind = "nil"
            THEN [loc EXCEPT !.r = changeBase(@, defaultRulesFragment, "")]
            ELSE IF data.kind = "bad"
            THEN [loc EXCEPT !.statuses = Put(@, path, genApplyStatus(TRUE, UnmarshalErr(data)))]
            ELSE [loc EXCEPT !.r = changeBase(@, Unmarshal(data.doc, ZeroFragment), path),
                             !.statuses = Put(@, path, genApplyStatus(TRUE, NoErr))]

\* the loop body with a removal that fails for a path without an edit
asmConfigStrictRemove(loc, path, data) ==
    LET acked == [loc EXCEPT !.statuses = Put(@, path, genApplyStatus(TRUE, NoErr))]
    IN IF data.kind = "nil"
       THEN IF path \in DOMAIN loc.r.edits
            THEN [acked EXCEPT !.r = removeEdit(@, path)]
            ELSE [loc EXCEPT !.statuses = Put(@, path, genApplyStatus(TRUE, "no such edit"))]
       ELSE LET err == UnmarshalErr(data)
                f == IF err = NoErr THEN Unmarshal(data.doc, ZeroFragment) ELSE ZeroFragment
            IN IF err # NoErr \/ ~validate(f)
               THEN [acked EXCEPT !.statuses = Put(@, path, genApplyStatus(TRUE, err))]
               ELSE [acked EXCEPT !.r = addEdit(@, path, f), !.added = @ \cup {path}]

\* the loop body with a rejection that removes the edit stored under the path
asmConfigDropRejected(loc, path, data) ==
    LET acked == [loc EXCEPT !.statuses = Put(@, path, genApplyStatus(TRUE, NoErr))]
    IN IF data.kind = "nil"
       THEN [acked EXCEPT !.r = removeEdit(@, path)]
       ELSE LET err == UnmarshalErr(data)
                f == IF err = NoErr THEN Unmarshal(data.doc, ZeroFragment) ELSE ZeroFragment
            IN IF err # NoErr \/ ~validate(f)
               THEN [acked EXCEPT !.statuses = Put(@, path, genApplyStatus(TRUE, err)),
                                  !.r = removeEdit(@, path)]
               ELSE [acked EXCEPT !.r = addEdit(@, path, f), !.added = @ \cup {path}]

\* one iteration of the loop of lines 104-119
asmConfig(loc, path, data) ==
    LET acked == [loc EXCEPT !.statuses = Put(@, path, genApplyStatus(TRUE, NoErr))]
    IN IF data.kind = "nil"
       THEN [acked EXCEPT !.r = removeEdit(@, path)]
       ELSE LET err == UnmarshalErr(data)
                f == IF err = NoErr THEN Unmarshal(data.doc, ZeroFragment) ELSE ZeroFragment
            IN IF err # NoErr \/ ~validate(f)
               THEN [acked EXCEPT !.statuses = Put(@, path, genApplyStatus(TRUE, err))]
               ELSE [acked EXCEPT !.r = addEdit(@, path, f), !.added = @ \cup {path}]

\* case rc.ProductASM: the iterations touch disjoint keys, so any order of
\* the range loop gives the same locals
RECURSIVE caseASM(_, _, _)
caseASM(loc, u, todo) ==
    IF todo = {} THEN loc
    ELSE LET path == CHOOSE q \in todo : TRUE
         IN caseASM(asmConfig(loc, path, u[path]), u, todo \ {path})

\* the loop with a default case that reports an error for every config of an
\* unsubscribed product
processRulesRejectOther(loc, updates, md) ==
    LET l1 == IF ProductASMData \in DOMAIN updates
              THEN caseASMData(loc, updates[ProductASMData], md) ELSE loc
        l2 == IF ProductASMDD \in DOMAIN updates
              THEN caseASMDD(l1, updates[ProductASMDD]) ELSE l1
        l3 == IF ProductASM \in DOMAIN updates
              THEN caseASM(l2, updates[ProductASM], DOMAIN updates[ProductASM]) ELSE l2
        others == UNION {DOMAIN updates[p] :
                           p \in DOMAIN updates \ {ProductASMData, ProductASMDD, ProductASM}}
    IN [l3 EXCEPT !.statuses =
          mergeMaps(@, [q \in others |-> genApplyStatus(TRUE, "unsubscribed product")])]

\* lines 69-123 for the batch without its ASM_FEATURES category.  The three
\* recognised categories write disjoint parts of the locals (the "asmdata"
\* edit, the base, the edits named by ASM paths; statuses of their own
\* paths), so the order in which range visits the categories is immaterial.
processRules(loc, updates, md) ==
    LET l1 == IF ProductASMData \in DOMAIN updates
              THEN caseASMData(loc, updates[ProductASMData], md) ELSE loc
        l2 == IF ProductASMDD \in DOMAIN updates
              THEN caseASMDD(l1, updates[ProductASMDD]) ELSE l1
    IN IF ProductASM \in DOMAIN updates
       THEN caseASM(l2, updates[ProductASM], DOMAIN updates[ProductASM]) ELSE l2

\* lines 129-133: the statuses returned
finalStatuses(statuses, err) ==
    IF err # NoErr THEN [k \in DOMAIN statuses |-> genApplyStatus(TRUE, err)] ELSE statuses

\* lines 129-136: the committed manager after the hand-off
commitAlways(old, r, err) == r

commitNever(old, r, err) == old

commit(old, r, err) == IF err # NoErr THEN old ELSE r

----------------------------------------------------------------------------
(* Inputs: the documents and batches the transport can deliver *)

ExclA == [ID |-> "excl-a", Conditions |-> <<>>, Inputs |-> <<"http.client_ip">>, RulesTarget |-> <<>>]
ExclB == [ID |-> "excl-b", Conditions |-> <<"match">>, Inputs |-> <<>>, RulesTarget |-> <<>>]
ExclC == [ID |-> "excl-c", Conditions |-> <<>>, Inputs |-> <<>>, RulesTarget |-> <<"crs-913-110">>]
OvrA == [ID |-> "crs-913-110", RulesTarget |-> NilSlice]
OvrNoTarget == [ID |-> "", RulesTarget |-> NilSlice]

\* ASM documents: two valid ones (1 and 2 exclusions) and one validate() rejects
FragX == [Exclusions |-> <<ExclA>>]
FragY == [Exclusions |-> <<ExclB, ExclC>>, Overrides |-> <<OvrA>>, Actions |-> <<"block">>]
FragInvalid == [Overrides |-> <<OvrNoTarget>>, Exclusions |-> <<ExclA>>]

\* ASM_DD documents: a full base, and a document that carries no rules
BaseRemote == [Version |-> "9.9", Rules |-> <<"custom-1">>, Exclusions |-> <<ExclC>>]
BaseNoRules == [Version |-> "0.1"]

\* ASM_DATA documents: both for (blocked_ips, ip_with_expiration)
DataA == [rules_data |-> <<[ID |-> "blocked_ips", Type |-> "ip_with_expiration",
                            Data |-> <<[Value |-> "1.2.3.4", Expiration |-> 100]>>]>>]
DataB == [rules_data |-> <<[ID |-> "blocked_ips", Type |-> "ip_with_expiration",
                            Data |-> <<[Value |-> "1.2.3.4", Expiration |-> 50],
                                       [Value |-> "5.6.7.8", Expiration |-> 0]>>]>>]

\* a local rules file given at start-up
LocalDoc == [Version |-> "1.0", Rules |-> <<"local-1">>, Exclusions |-> <<ExclB>>]

LocalRules == {NilPayload, DocPayload(LocalDoc)}

ProductOther == "APM_SAMPLING"

\* the payloads each config path can carry
PayloadsOf(path) ==
    CASE path = "features/1" -> {NilPayload, BadPayload, DocPayload([enabled |-> TRUE]),
                                 DocPayload([enabled |-> FALSE])}
      [] path = "features/2" -> {DocPayload([enabled |-> TRUE])}
      [] path = "data/1" -> {NilPayload, BadPayload, DocPayload(DataA)}
      [] path = "data/2" -> {NilPayload, DocPayload(DataB)}
      [] path = "dd/1" -> {NilPayload, BadPayload, DocPayload(BaseRemote), DocPayload(BaseNoRules)}
      [] path = "dd/2" -> {DocPayload(BaseRemote)}
      [] path = "asm/1" -> {NilPayload, BadPayload, DocPayload(FragX), DocPayload(FragInvalid)}
      [] path = "asm/2" -> {NilPayload, DocPayload(FragY)}
      [] OTHER -> {DocPayload([rate |-> 1])}

PathsOf(product) ==
    CASE product = ProductASMFeatures -> {"features/1", "features/2"}
      [] product = ProductASMData -> {"data/1", "data/2"}
      [] product = ProductASMDD -> {"dd/1", "dd/2"}
      [] product = ProductASM -> {"asm/1", "asm/2"}
      [] OTHER -> {"other/1"}

Products == {ProductASMFeatures, ProductASMData, ProductASMDD, ProductASM, ProductOther}

Configs ==
    UNION {UNION {[product : {p}, path : {q}, payload : PayloadsOf(q)] : q \in PathsOf(p)} :
             p \in Products}

\* the sets of at most n configs with distinct paths
RECURSIVE BatchesOf(_)
BatchesOf(n) ==
    IF n = 0 THEN {{}}
    ELSE LET prev == BatchesOf(n - 1)
         IN prev \cup {pr[1] \cup {pr[2]} :
                pr \in {q \in prev \X Configs : \A d \in q[1] : d.path # q[2].path}}

Batches == BatchesOf(MaxConfigs)

\* a batch as the transport passes it: product -> path -> payload
UpdatesOf(b) ==
    [p \in {c.product : c \in b} |->
        [q \in {c.path : c \in {d \in b : d.product = p}} |->
            (CHOOSE c \in b : c.path = q).payload]]

PathsIn(updates) == UNION {DOMAIN updates[p] : p \in DOMAIN updates}

----------------------------------------------------------------------------
(* State *)

NoCall ==
    [called |-> FALSE, updates |-> EmptyMap, prev |-> newRuleset(NilPayload),
     startedBefore |-> FALSE, startErr |-> NoErr, staged |-> newRuleset(NilPayload),
     computed |-> EmptyMap,
     added |-> {}, compiled |-> newRuleset(NilPayload), data |-> EmptyMap, swapErr |-> NoErr, statuses |-> EmptyMap]

IdleWorker == [pc |-> "idle", updates |-> EmptyMap, r |-> newRuleset(NilPayload),
               statuses |-> EmptyMap, added |-> {}, startErr |-> NoErr, swapErr |-> NoErr]

Workers == {1, 2}

MergeIdle == [e1 |-> <<>>, e2 |-> <<>>, fwd |-> <<>>, rev |-> <<>>, phase |-> "off"]

MaxConcConfigs == 1

CompileIdle == [r |-> newRuleset(NilPayload), outs |-> <<>>]

ApplyIdle == [phase |-> "off"]

Init ==
    /\ \E rules \in LocalRules : rulesManager = newRuleset(rules)
    /\ started = FALSE
    /\ wafRules = raw(rulesManager)
    /\ last = NoCall
    /\ nBatches = 0
    /\ workers = [w \in Workers |-> IdleWorker]
    /\ mg = MergeIdle
    /\ cp = CompileIdle
    /\ pf = ApplyIdle

----------------------------------------------------------------------------
(* onRCUpdate, one batch at a time *)

\* lines 60-123 on the clone r0: the locals before compile()
locals(r0, isStarted, updates, startOK, md) ==
    LET hasF == ProductASMFeatures \in DOMAIN updates
        feat == IF hasF THEN handleASMFeatures(isStarted, updates[ProductASMFeatures], startOK)
                ELSE [statuses |-> EmptyMap, started |-> isStarted, startErr |-> NoErr]
        rest == Delete(updates, ProductASMFeatures)
        loc == processRules([r |-> r0, statuses |-> mergeMaps(EmptyMap, feat.statuses),
                             added |-> {}], rest, md)
    IN [r |-> loc.r, statuses |-> loc.statuses, added |-> loc.added,
        started |-> feat.started, startErr |-> feat.startErr]

\* the results mergeRulesData can return for the batch (one dummy when the
\* batch has no ASM_DATA category and mergeRulesData is not called)
MergedData(updates) ==
    IF ProductASMData \in DOMAIN updates THEN mergeRulesData(updates[ProductASMData])
    ELSE {[rulesData |-> <<>>, statuses |-> EmptyMap]}

\* whether the batch makes handleASMFeatures call a.start()
CallsStart(isStarted, updates) ==
    /\ ProductASMFeatures \in DOMAIN updates
    /\ Cardinality(DOMAIN updates[ProductASMFeatures]) = 1
    /\ \E q \in DOMAIN updates[ProductASMFeatures] :
          LET rawp == updates[ProductASMFeatures][q]
          IN rawp.kind = "doc" /\ rawp.doc.enabled /\ ~isStarted

\* the hand-off of the document the clone had cached, without compile()
handOffStale(manager, isStarted, updates, loc, order, swapOK) ==
    LET r == loc.r
        data == raw(r)
        err == swapWAF(swapOK)
    IN [called |-> TRUE, updates |-> updates, prev |-> manager,
        startedBefore |-> isStarted, startErr |-> loc.startErr, staged |-> loc.r,
        computed |-> loc.statuses, added |-> loc.added, compiled |-> r,
        data |-> data, swapErr |-> err, statuses |-> finalStatuses(loc.statuses, err)]

startedRolledBack(before, after, err) == IF err # NoErr THEN before ELSE after

\* a.started when onRCUpdate returns: lines 129-136 assign the statuses or
\* the manager only, whatever swapWAF returned
startedOnReturn(before, after, err) == after

\* lines 125-137 on the locals loc, with the order in which compile() visits
\* the edits and the engine's answer; the call's record
handOff(manager, isStarted, updates, loc, order, swapOK) ==
    LET r == compile(loc.r, order)
        data == raw(r)
        err == swapWAF(swapOK)
    IN [called |-> TRUE, updates |-> updates, prev |-> manager,
        startedBefore |-> isStarted, startErr |-> loc.startErr, staged |-> loc.r,
        computed |-> loc.statuses, added |-> loc.added, compiled |-> r,
        data |-> data, swapErr |-> err, statuses |-> finalStatuses(loc.statuses, err)]

OnRCUpdate ==
    /\ nBatches < MaxBatches
    /\ \E b \in Batches, swapOK \in BOOLEAN :
        \E updates \in {UpdatesOf(b)} :
         \E startOK \in (IF CallsStart(started, updates) THEN BOOLEAN ELSE {TRUE}),
            md \in MergedData(updates) :
          \E loc \in {locals(clone(rulesManager), started, updates, startOK, md)} :
           \E order \in Perms(DOMAIN loc.r.edits) :
            \E call \in {handOff(rulesManager, started, updates, loc, order, swapOK)} :
              /\ rulesManager' = commit(rulesManager, call.compiled, call.swapErr)
              /\ started' = startedOnReturn(started, loc.started, call.swapErr)
              /\ wafRules' = IF call.swapErr = NoErr THEN call.data ELSE wafRules
              /\ last' = call
              /\ nBatches' = nBatches + 1
    /\ UNCHANGED <<workers, mg, cp, pf>>

Next == OnRCUpdate

Spec == Init /\ [][Next]_vars

----------------------------------------------------------------------------
(* onRCUpdate delivered by concurrent callers.  The handler takes no lock; *)
(* each worker runs it in three steps, each with at most one access to the *)
(* shared a.cfg.rulesManager: the read of line 59, none in lines 60-123,   *)
(* the write of line 135.                                                  *)

ConcBatches == BatchesOf(MaxConcConfigs)

\* line 59
Deliver(w) ==
    /\ workers[w].pc = "idle"
    /\ nBatches < MaxBatches
    /\ \E b \in ConcBatches :
         workers' = [workers EXCEPT ![w] = [@ EXCEPT !.pc = "cloned",
                                                     !.updates = UpdatesOf(b),
                                                     !.r = clone(rulesManager)]]
    /\ nBatches' = nBatches + 1
    /\ UNCHANGED <<rulesManager, started, wafRules, last, mg, cp, pf>>

\* lines 60-123
Process(w) ==
    /\ workers[w].pc = "cloned"
    /\ \E startOK \in (IF CallsStart(started, workers[w].updates) THEN BOOLEAN ELSE {TRUE}),
          md \in MergedData(workers[w].updates) :
         \E loc \in {locals(workers[w].r, started, workers[w].updates, startOK, md)} :
           /\ workers' = [workers EXCEPT ![w] = [@ EXCEPT !.pc = "processed",
                                                          !.r = loc.r,
                                                          !.statuses = loc.statuses,
                                                          !.added = loc.added,
                                                          !.startErr = loc.startErr]]
           /\ started' = loc.started
    /\ UNCHANGED <<rulesManager, wafRules, last, nBatches, mg, cp, pf>>

\* lines 125-137
HandOff(w) ==
    /\ workers[w].pc = "processed"
    /\ \E order \in Perms(DOMAIN workers[w].r.edits), swapOK \in BOOLEAN :
         \E call \in {handOff(rulesManager, started, workers[w].updates,
                              [r |-> workers[w].r, statuses |-> workers[w].statuses,
                               added |-> workers[w].added,
                               startErr |-> workers[w].startErr], order, swapOK)} :
           /\ rulesManager' = commit(rulesManager, call.compiled, call.swapErr)
           /\ wafRules' = IF call.swapErr = NoErr THEN call.data ELSE wafRules
           /\ workers' = [workers EXCEPT ![w] = [@ EXCEPT !.pc = "done",
                                                          !.r = call.compiled,
                                                          !.statuses = call.statuses,
                                                          !.swapErr = call.swapErr]]
    /\ UNCHANGED <<started, last, nBatches, mg, cp, pf>>

NextConc == \E w \in Workers : Deliver(w) \/ Process(w) \/ HandOff(w)

SpecConc == Init /\ [][NextConc]_vars

----------------------------------------------------------------------------
(* mergeRulesDataEntries applied to bounded inputs, in both argument orders *)

EntryValues == {"1.2.3.4", "5.6.7.8"}
EntryExpirations == {0, 50, 9999}
DataEntries == [Value : EntryValues, Expiration : EntryExpirations]
EntryLists == UNION {[1..n -> DataEntries] : n \in 0..MaxEntries}

InitMerge ==
    /\ rulesManager = newRuleset(NilPayload)
    /\ started = FALSE
    /\ wafRules = raw(rulesManager)
    /\ last = NoCall
    /\ nBatches = 0
    /\ workers = [w \in Workers |-> IdleWorker]
    /\ cp = CompileIdle
    /\ pf = ApplyIdle
    /\ \E e1 \in EntryLists, e2 \in EntryLists :
         mg = [e1 |-> e1, e2 |-> e2, fwd |-> <<>>, rev |-> <<>>, phase |-> "init"]

MergeForward ==
    /\ mg.phase = "init"
    /\ \E out \in mergeRulesDataEntries(mg.e1, mg.e2) :
         mg' = [mg EXCEPT !.fwd = out, !.phase = "fwd"]
    /\ UNCHANGED <<rulesManager, started, wafRules, last, nBatches, workers, cp, pf>>

MergeBackward ==
    /\ mg.phase = "fwd"
    /\ \E out \in mergeRulesDataEntries(mg.e2, mg.e1) :
         mg' = [mg EXCEPT !.rev = out, !.phase = "both"]
    /\ UNCHANGED <<rulesManager, started, wafRules, last, nBatches, workers, cp, pf>>

NextMerge == MergeForward \/ MergeBackward

SpecMerge == InitMerge /\ [][NextMerge]_vars

----------------------------------------------------------------------------
(* A ruleset built through its own operations, compiled and serialised     *)
(* repeatedly.  cp.outs holds the raw() outputs since the last mutation.    *)

EditNames == {"asm/1", "asm/2", "asmdata"}

EditFragments ==
    {Unmarshal(FragX, ZeroFragment), Unmarshal(FragY, ZeroFragment),
     [ZeroFragment EXCEPT !.RulesData = DataA.rules_data]}

BaseFragments ==
    {defaultRulesFragment, Unmarshal(BaseRemote, ZeroFragment), Unmarshal(BaseNoRules, ZeroFragment)}

InitCompile ==
    /\ rulesManager = newRuleset(NilPayload)
    /\ started = FALSE
    /\ wafRules = raw(rulesManager)
    /\ last = NoCall
    /\ nBatches = 0
    /\ workers = [w \in Workers |-> IdleWorker]
    /\ mg = MergeIdle
    /\ pf = ApplyIdle
    /\ \E rules \in LocalRules : cp = [r |-> newRuleset(rules), outs |-> <<>>]

CpFrame == UNCHANGED <<rulesManager, started, wafRules, last, nBatches, workers, mg, pf>>

CpAddEdit ==
    /\ \E name \in EditNames, f \in EditFragments :
         cp' = [r |-> addEdit(cp.r, name, f), outs |-> <<>>]
    /\ CpFrame

CpRemoveEdit ==
    /\ \E name \in EditNames : cp' = [r |-> removeEdit(cp.r, name), outs |-> <<>>]
    /\ CpFrame

CpChangeBase ==
    /\ \E f \in BaseFragments, path \in {"", "dd/1"} :
         cp' = [r |-> changeBase(cp.r, f, path), outs |-> <<>>]
    /\ CpFrame

\* compile() followed by raw()
CpCompile ==
    /\ Len(cp.outs) < MaxCompiles
    /\ \E order \in Perms(DOMAIN cp.r.edits) :
         \E r \in {compile(cp.r, order)} :
           cp' = [r |-> r, outs |-> Append(cp.outs, raw(r))]
    /\ CpFrame

NextCompile == CpAddEdit \/ CpRemoveEdit \/ CpChangeBase \/ CpCompile

SpecCompile == InitCompile /\ [][NextCompile]_vars

----------------------------------------------------------------------------
(* rulesetFragment.validate applied to one bounded fragment *)

\* override entries: rules_target absent (nil), present and empty, present
OverrideEntries ==
    [ID : {"", "crs-913-110"}, RulesTarget : {NilSlice, Slice(<<>>), Slice(<<"crs-913-110">>)}]

ExclusionEntries ==
    [ID : {"excl"}, Conditions : {<<>>, <<"match">>}, Inputs : {<<>>, <<"http.client_ip">>},
     RulesTarget : {<<>>, <<"crs-913-110">>}]

OverrideLists == UNION {[1..n -> OverrideEntries] : n \in 0..MaxEntries}

ExclusionLists == UNION {[1..n -> ExclusionEntries] : n \in 0..MaxEntries}

InitValidate ==
    /\ rulesManager = newRuleset(NilPayload)
    /\ started = FALSE
    /\ wafRules = raw(rulesManager)
    /\ last = NoCall
    /\ nBatches = 0
    /\ workers = [w \in Workers |-> IdleWorker]
    /\ mg = MergeIdle
    /\ cp = CompileIdle
    /\ \E o \in OverrideLists, e \in ExclusionLists :
         pf = [phase |-> "validate", done |-> FALSE, ok |-> FALSE,
               f |-> [ZeroFragment EXCEPT !.Overrides = o, !.Exclusions = e]]

PfFrame == UNCHANGED <<rulesManager, started, wafRules, last, nBatches, workers, mg, cp>>

Validate ==
    /\ pf.phase = "validate" /\ ~pf.done
    /\ pf' = [pf EXCEPT !.done = TRUE, !.ok = validate(pf.f)]
    /\ PfFrame

NextValidate == Validate

SpecValidate == InitValidate /\ [][NextValidate]_vars

----------------------------------------------------------------------------
(* newRuleset applied to one bounded rules file *)

\* the value a rules file gives a top-level field it carries
FieldValue(k) ==
    CASE k = "Version" -> "1.0"
      [] k = "Metadata" -> "local"
      [] k = "Rules" -> <<"local-1">>
      [] k = "Overrides" -> <<OvrA>>
      [] k = "Exclusions" -> <<ExclB>>
      [] k = "RulesData" -> DataA.rules_data
      [] OTHER -> <<"block">>

\* the rules files that parse: any set of top-level fields
RulesDocs == {[k \in S |-> FieldValue(k)] : S \in SUBSET Fields}

\* no rules file, one that does not parse, or one that does
RulesFiles == {NilPayload, BadPayload} \cup {DocPayload(d) : d \in RulesDocs}

InitNew ==
    /\ rulesManager = newRuleset(NilPayload)
    /\ started = FALSE
    /\ wafRules = raw(rulesManager)
    /\ last = NoCall
    /\ nBatches = 0
    /\ workers = [w \in Workers |-> IdleWorker]
    /\ mg = MergeIdle
    /\ cp = CompileIdle
    /\ \E rules \in RulesFiles :
         pf = [phase |-> "new", done |-> FALSE, rules |-> rules, r |-> newRuleset(NilPayload)]

NewRuleset ==
    /\ pf.phase = "new" /\ ~pf.done
    /\ pf' = [pf EXCEPT !.done = TRUE, !.r = newRuleset(pf.rules)]
    /\ PfFrame

NextNew == NewRuleset

SpecNew == InitNew /\ [][NextNew]_vars

----------------------------------------------------------------------------
(* genApplyStatus and statusesFromUpdate applied to one bounded input *)

StatusPaths == {"asm/1", "asm/2", "dd/1"}

\* the product updates over these paths: path -> payload
StatusUpdates == UNION {[S -> {NilPayload, BadPayload}] : S \in SUBSET StatusPaths}

\* no error and two errors
StatusErrors == {NoErr, "unexpected end of JSON input", "More than one config received for ASM_DD"}

InitStatus ==
    /\ rulesManager = newRuleset(NilPayload)
    /\ started = FALSE
    /\ wafRules = raw(rulesManager)
    /\ last = NoCall
    /\ nBatches = 0
    /\ workers = [w \in Workers |-> IdleWorker]
    /\ mg = MergeIdle
    /\ cp = CompileIdle
    /\ \E u \in StatusUpdates, ack \in BOOLEAN, err \in StatusErrors :
         pf = [phase |-> "status", done |-> FALSE, u |-> u, ack |-> ack, err |-> err,
               status |-> genApplyStatus(FALSE, NoErr), statuses |-> EmptyMap]

StatusesFromUpdate ==
    /\ pf.phase = "status" /\ ~pf.done
    /\ pf' = [pf EXCEPT !.done = TRUE,
                        !.status = genApplyStatus(pf.ack, pf.err),
                        !.statuses = statusesFromUpdate(pf.u, pf.ack, pf.err)]
    /\ PfFrame

NextStatus == StatusesFromUpdate

SpecStatus == InitStatus /\ [][NextStatus]_vars

----------------------------------------------------------------------------
(* Properties *)

ErrorStatus(err) == [State |-> StateError, Error |-> err]

SameManager(r1, r2) ==
    r1.base = r2.base /\ r1.basePath = r2.basePath /\ r1.edits = r2.edits

Count(s, x) == Cardinality({i \in 1..Len(s) : s[i] = x})

\* s and t hold the same entries, each as often, in whatever order
SameEntries(s, t) ==
    /\ Len(s) = Len(t)
    /\ \A x \in Range(s) \cup Range(t) : Count(s, x) = Count(t, x)

\* the batch holds exactly the config path of product, with payload
IsSingle(updates, product, path, payload) ==
    /\ DOMAIN updates = {product}
    /\ DOMAIN updates[product] = {path}
    /\ updates[product][path] = payload

\* C1: atomic rollback.  After a batch whose hand-off to the engine failed,
\* base, basePath and edits of the committed manager are those committed
\* before the batch, and every status returned is the error status carrying
\* the hand-off failure, whatever status the batch had computed for it.
AtomicRollback ==
    (last.called /\ last.swapErr # NoErr) =>
        /\ SameManager(rulesManager, last.prev)
        /\ DOMAIN last.statuses = DOMAIN last.computed
        /\ \A k \in DOMAIN last.statuses : last.statuses[k] = ErrorStatus(last.swapErr)

\* a failed hand-off of a batch that had staged an edit and acknowledged it
AtomicRollbackWitness ==
    /\ last.called /\ last.swapErr # NoErr
    /\ last.staged.edits # last.prev.edits
    /\ \E k \in DOMAIN last.computed : last.computed[k].State = Acknowledged
    /\ \E k \in DOMAIN last.computed : last.computed[k].State = Unacknowledged

\* C2: commit on success.  When the hand-off succeeds the working clone, as
\* the batch's categories left it and compile() completed it, becomes the
\* committed manager and the statuses returned are the ones computed while
\* processing the categories; the committed manager changes in no step
\* other than a batch whose hand-off succeeded.
CommitOnSuccess ==
    [][/\ (last'.called /\ last'.swapErr = NoErr) =>
            /\ rulesManager' = last'.compiled
            /\ rulesManager'.edits = last'.staged.edits
            /\ rulesManager'.basePath = last'.staged.basePath
            /\ rulesManager'.base \in {last'.staged.base, Default(last'.staged.base)}
            /\ last'.statuses = last'.computed
       /\ (rulesManager' # rulesManager) => (last'.called /\ last'.swapErr = NoErr)]_vars

\* a successful batch that changed the edits and kept an error status
CommitOnSuccessWitness ==
    /\ last.called /\ last.swapErr = NoErr
    /\ rulesManager.edits # last.prev.edits
    /\ \E k \in DOMAIN last.statuses : last.statuses[k].State = StateError

\* C3: no lost update.  When the batches of all concurrent deliveries have
\* been handed off successfully, every edit a batch added under one of its
\* ASM paths, and no other batch names, is in the committed manager.
NoLostUpdate ==
    (\A w \in Workers : workers[w].pc = "done" /\ workers[w].swapErr = NoErr) =>
        \A w \in Workers : \A p \in workers[w].added \cap PathsOf(ProductASM) :
            (\A v \in Workers \ {w} : p \notin PathsIn(workers[v].updates)) =>
                p \in DOMAIN rulesManager.edits

\* C4: status coverage.  The statuses returned have an entry for every
\* config path of the batch, whatever its category and payload, and the
\* configs of an unrecognised category are unacknowledged with no error
\* unless the hand-off failed.
StatusCoverage ==
    last.called =>
        /\ PathsIn(last.updates) \subseteq DOMAIN last.statuses
        /\ \A p \in DOMAIN last.updates :
             (p \notin {ProductASMFeatures, ProductASMData, ProductASMDD, ProductASM}
              /\ last.swapErr = NoErr) =>
                \A q \in DOMAIN last.updates[p] :
                    /\ q \in DOMAIN last.statuses
                    /\ last.statuses[q] = [State |-> Unacknowledged, Error |-> ""]

\* C5: zero-expiration dominance.  A value that has expiration 0 in one of
\* the inputs of mergeRulesDataEntries has expiration 0 in its result.
ZeroExpirationDominance ==
    mg.phase \in {"fwd", "both"} =>
        \A e \in Range(mg.e1) \cup Range(mg.e2) :
            e.Expiration = 0 => AsMap(mg.fwd)[e.Value] = 0

\* C6: merge commutativity on values.  mergeRulesDataEntries(A, B) and
\* mergeRulesDataEntries(B, A) give every value the same expiration.
MergeCommutes ==
    mg.phase = "both" => AsMap(mg.fwd) = AsMap(mg.rev)

\* C7: compile determinism.  The serialised outputs of repeated
\* compile()/raw() calls on an unchanged base and edits mapping are equal.
CompileDeterministic ==
    \A i \in 1..Len(cp.outs) : \A j \in 1..Len(cp.outs) : cp.outs[i] = cp.outs[j]

\* C8: single-base constraint.  When the ASM_DD category of a batch holds
\* more than one config, each of them gets an error status (the one of the
\* category when the hand-off succeeds) and the working copy's base and
\* basePath are, when the categories are done, those of the committed manager.
SingleBase ==
    (/\ last.called
     /\ ProductASMDD \in DOMAIN last.updates
     /\ Cardinality(DOMAIN last.updates[ProductASMDD]) > 1) =>
        /\ \A q \in DOMAIN last.updates[ProductASMDD] :
              /\ q \in DOMAIN last.statuses
              /\ last.statuses[q].State = StateError
              /\ last.computed[q] = ErrorStatus("More than one config received for ASM_DD")
        /\ last.staged.base = last.prev.base
        /\ last.staged.basePath = last.prev.basePath

\* an accepted batch with two ASM_DD configs that both carry a full base
SingleBaseWitness ==
    /\ last.called /\ last.swapErr = NoErr
    /\ ProductASMDD \in DOMAIN last.updates
    /\ DOMAIN last.updates[ProductASMDD] = {"dd/1", "dd/2"}
    /\ \A q \in {"dd/1", "dd/2"} : last.updates[ProductASMDD][q] = DocPayload(BaseRemote)
    /\ last.prev.base # Unmarshal(BaseRemote, ZeroFragment)

\* C9: fragment-edit rejection.  For an ASM config with a payload: when the
\* payload fails to parse or fails validate(), its status is error and
\* addEdit is not called for it; otherwise addEdit is called and the status
\* is acknowledged.
FragmentEditRejection ==
    (last.called /\ ProductASM \in DOMAIN last.updates) =>
        \A q \in DOMAIN last.updates[ProductASM] :
            LET data == last.updates[ProductASM][q]
                valid == data.kind = "doc" /\ validate(Unmarshal(data.doc, ZeroFragment))
            IN data.kind # "nil" =>
                 IF valid
                 THEN q \in last.added /\ last.computed[q].State = Acknowledged
                 ELSE q \notin last.added /\ last.computed[q].State = StateError

\* the batch adds, alone and successfully, a valid edit under a new path
IsAdd(call, path) ==
    /\ call.called /\ call.swapErr = NoErr
    /\ path \notin DOMAIN call.prev.edits
    /\ \E d \in {FragX, FragY} : IsSingle(call.updates, ProductASM, path, DocPayload(d))

\* the batch carries, alone and successfully, the removal marker of path
IsRemove(call, path) ==
    /\ call.called /\ call.swapErr = NoErr
    /\ IsSingle(call.updates, ProductASM, path, NilPayload)

\* C10: add-then-remove round trip.  A successful batch that adds one valid
\* ASM config with n exclusions to a manager without that edit is
\* acknowledged and leaves the compiled exclusions n entries longer; a
\* successful batch that follows it with the removal marker of that config
\* is acknowledged and leaves the compiled exclusions with the entries they
\* had before the addition.
RoundTrip ==
    [][\A path \in PathsOf(ProductASM) :
        /\ IsAdd(last', path) =>
             /\ last'.statuses[path] = [State |-> Acknowledged, Error |-> ""]
             /\ Len(rulesManager'.latest.Exclusions) =
                  Len(rulesManager.latest.Exclusions)
                    + Len(last'.updates[ProductASM][path].doc.Exclusions)
        /\ (IsAdd(last, path) /\ IsRemove(last', path)) =>
             /\ last'.statuses[path] = [State |-> Acknowledged, Error |-> ""]
             /\ SameEntries(rulesManager'.latest.Exclusions, last.prev.latest.Exclusions)
             /\ Len(rulesManager'.latest.Exclusions) < Len(rulesManager.latest.Exclusions)]_vars

\* the removal of an edit that an earlier batch had added with exclusions
RoundTripWitness ==
    /\ \E path \in PathsOf(ProductASM) :
         /\ IsRemove(last, path)
         /\ path \in DOMAIN last.prev.edits
         /\ Len(last.prev.edits[path].Exclusions) = 2
         /\ path \notin DOMAIN rulesManager.edits
    /\ Len(rulesManager.latest.Exclusions) > 0

AckStatus == [State |-> Acknowledged, Error |-> ""]
UnackStatus == [State |-> Unacknowledged, Error |-> ""]

\* the configs the call received for product ("" -> nothing when it has none)
ConfigsOf(call, product) ==
    IF call.called /\ product \in DOMAIN call.updates THEN call.updates[product] ELSE EmptyMap

\* C11: removal idempotence.  The removal marker of an ASM config whose path
\* is not in the edits mapping is acknowledged with no error and leaves the
\* path out of the working copy's edits; when no other config of the batch
\* writes the edits, the working copy's edits are those of the committed
\* manager, and the status returned is acknowledged when the hand-off succeeds.
RemovalIdempotence ==
    \A q \in DOMAIN ConfigsOf(last, ProductASM) :
        (last.updates[ProductASM][q].kind = "nil" /\ q \notin DOMAIN last.prev.edits) =>
            /\ last.computed[q] = AckStatus
            /\ q \notin DOMAIN last.staged.edits
            /\ last.swapErr = NoErr => last.statuses[q] = AckStatus
            /\ (DOMAIN last.updates[ProductASM] = {q} /\ ProductASMData \notin DOMAIN last.updates)
                  => last.staged.edits = last.prev.edits

\* the removal marker of asm/1, alone in its batch, when the committed
\* manager holds an edit under another path only
RemovalIdempotenceWitness ==
    /\ last.called
    /\ IsSingle(last.updates, ProductASM, "asm/1", NilPayload)
    /\ DOMAIN last.prev.edits = {"asm/2"}
    /\ last.staged.edits = last.prev.edits

\* both rules-data configs of the batch carry a document: data/1 gives
\* 1.2.3.4 the expiration 100, data/2 gives it 50
BothContribute(call) ==
    /\ DOMAIN ConfigsOf(call, ProductASMData) = {"data/1", "data/2"}
    /\ call.updates[ProductASMData]["data/1"] = DocPayload(DataA)
    /\ call.updates[ProductASMData]["data/2"] = DocPayload(DataB)

\* C12: batch rules-data merge.  When the two configs of a rules-data batch
\* give the value 1.2.3.4 of (blocked_ips, ip_with_expiration) the
\* expirations 100 and 50, the merged rules data has one entry list for that
\* (id, type), with one record for 1.2.3.4, of expiration 100, in whatever
\* order the configs are visited.
BatchMergeLongestLived ==
    BothContribute(last) =>
        LET rd == last.staged.edits["asmdata"].RulesData
        IN /\ Len(rd) = 1
           /\ rd[1].ID = "blocked_ips" /\ rd[1].Type = "ip_with_expiration"
           /\ Cardinality({i \in 1..Len(rd[1].Data) : rd[1].Data[i].Value = "1.2.3.4"}) = 1
           /\ \A i \in 1..Len(rd[1].Data) :
                 rd[1].Data[i].Value = "1.2.3.4" => rd[1].Data[i].Expiration = 100

\* the merged list of the two configs, holding both values
BatchMergeWitness ==
    /\ BothContribute(last)
    /\ Len(last.staged.edits["asmdata"].RulesData) = 1
    /\ Len(last.staged.edits["asmdata"].RulesData[1].Data) = 2

\* the rules data the batch would merge without the config q
MergedWithout(call, q) ==
    {m.rulesData : m \in mergeRulesData(Delete(call.updates[ProductASMData], q))}

\* C13: rules-data removal marker.  A rules-data config whose payload is the
\* removal marker adds nothing to the merged rules data (they are what the
\* other configs of the batch merge to) and its status is unacknowledged
\* with no error.
RulesDataRemovalUnacknowledged ==
    \A q \in DOMAIN ConfigsOf(last, ProductASMData) :
        last.updates[ProductASMData][q].kind = "nil" =>
            /\ last.computed[q] = UnackStatus
            /\ last.staged.edits["asmdata"].RulesData \in MergedWithout(last, q)

\* a removal marker next to a config that contributes entries
RulesDataRemovalWitness ==
    /\ DOMAIN ConfigsOf(last, ProductASMData) = {"data/1", "data/2"}
    /\ last.updates[ProductASMData]["data/1"] = DocPayload(DataA)
    /\ last.updates[ProductASMData]["data/2"] = NilPayload
    /\ last.staged.edits["asmdata"].RulesData = DataA.rules_data
    /\ last.computed["data/2"] = UnackStatus
    /\ last.computed["data/1"] = AckStatus

\* C13 as stated: the status of the removal marker is acknowledged
RulesDataRemovalAcknowledged ==
    \A q \in DOMAIN ConfigsOf(last, ProductASMData) :
        last.updates[ProductASMData][q].kind = "nil" =>
            /\ last.computed[q] = AckStatus
            /\ last.staged.edits["asmdata"].RulesData \in MergedWithout(last, q)

\* the call received the config q alone in ASM_FEATURES
OnlyToggle(call, q) == DOMAIN ConfigsOf(call, ProductASMFeatures) = {q}

\* the enabled flag of a toggle payload that parses
Enabled(rawp) == rawp.kind = "doc" /\ rawp.doc.enabled

\* C14: activation toggle transitions.  With one ASM_FEATURES config that
\* carries a payload which parses: enabled=true on a stopped engine whose
\* start succeeds leaves it started, enabled=false on a started engine
\* leaves it stopped, a flag equal to the current state leaves the state as
\* it was; in each case the status computed for the config is acknowledged.
ToggleTransitions ==
    \A q \in DOMAIN ConfigsOf(last, ProductASMFeatures) :
        (OnlyToggle(last, q) /\ last.updates[ProductASMFeatures][q].kind = "doc") =>
            LET enabled == Enabled(last.updates[ProductASMFeatures][q])
            IN /\ (enabled /\ ~last.startedBefore /\ last.startErr = NoErr) =>
                     started /\ last.computed[q] = AckStatus
               /\ (~enabled /\ last.startedBefore) =>
                     ~started /\ last.computed[q] = AckStatus
               /\ (enabled = last.startedBefore) =>
                     started = last.startedBefore /\ last.computed[q] = AckStatus

\* enabled=false stops an engine an earlier batch had started
ToggleTransitionsWitness ==
    /\ OnlyToggle(last, "features/1")
    /\ last.updates[ProductASMFeatures]["features/1"] = DocPayload([enabled |-> FALSE])
    /\ last.startedBefore
    /\ ~started
    /\ last.computed["features/1"] = AckStatus

\* C15: activation removal.  When the one ASM_FEATURES config of a batch is
\* the removal marker, the engine is stopped after the batch and the status
\* returned for the config is unacknowledged with no error.
ActivationRemoval ==
    \A q \in DOMAIN ConfigsOf(last, ProductASMFeatures) :
        (OnlyToggle(last, q) /\ last.updates[ProductASMFeatures][q].kind = "nil") =>
            /\ ~started
            /\ last.statuses[q] = UnackStatus

\* C16: activation removal short-circuits the batch.  When the one
\* ASM_FEATURES config of a batch is the removal marker, the working copy
\* is not mutated by the other categories (no base change, no edit added or
\* removed) and the committed manager is the one from before the batch.
ActivationRemovalShortCircuits ==
    \A q \in DOMAIN ConfigsOf(last, ProductASMFeatures) :
        (OnlyToggle(last, q) /\ last.updates[ProductASMFeatures][q].kind = "nil") =>
            /\ SameManager(last.staged, last.prev)
            /\ last.added = {}
            /\ SameManager(rulesManager, last.prev)

\* the call received more than one ASM_FEATURES config
ManyToggles(call) == Cardinality(DOMAIN ConfigsOf(call, ProductASMFeatures)) > 1

\* C17: more than one activation-toggle config.  The engine's activation
\* state is the one from before the batch, the status computed for every
\* ASM_FEATURES config is unacknowledged with no error, and this is the
\* status returned unless the hand-off to the engine fails, in which case
\* the status returned is the error carrying the hand-off failure.
ManyTogglesNoChange ==
    ManyToggles(last) =>
        /\ started = last.startedBefore
        /\ last.startErr = NoErr
        /\ \A q \in DOMAIN last.updates[ProductASMFeatures] :
              /\ last.computed[q] = UnackStatus
              /\ last.statuses[q] =
                    IF last.swapErr = NoErr THEN UnackStatus ELSE ErrorStatus(last.swapErr)

\* two configs asking to enable a stopped engine, in a batch whose hand-off fails
ManyTogglesWitness ==
    /\ ManyToggles(last)
    /\ \A q \in DOMAIN last.updates[ProductASMFeatures] :
          Enabled(last.updates[ProductASMFeatures][q])
    /\ ~last.startedBefore /\ ~started
    /\ last.swapErr # NoErr

\* C17 as stated: the status returned for every config is unacknowledged
ManyTogglesUnacknowledged ==
    ManyToggles(last) =>
        /\ started = last.startedBefore
        /\ \A q \in DOMAIN last.updates[ProductASMFeatures] : last.statuses[q] = UnackStatus

\* C18: start failure.  When the one ASM_FEATURES config asks to enable a
\* stopped engine and a.start() fails, the status computed for the config is
\* the error carrying the start failure, the status returned is an error,
\* and the engine is still stopped after the batch; a payload that fails to
\* parse gets the error status of the parse failure and leaves the
\* activation state as it was.
StartFailure ==
    \A q \in DOMAIN ConfigsOf(last, ProductASMFeatures) :
        OnlyToggle(last, q) =>
            LET rawp == last.updates[ProductASMFeatures][q]
            IN /\ (Enabled(rawp) /\ ~last.startedBefore /\ last.startErr # NoErr) =>
                     /\ last.computed[q] = ErrorStatus(last.startErr)
                     /\ last.statuses[q].State = StateError
                     /\ ~started
               /\ rawp.kind = "bad" =>
                     /\ last.computed[q] = ErrorStatus(UnmarshalErr(rawp))
                     /\ last.statuses[q].State = StateError
                     /\ started = last.startedBefore
                     /\ last.startErr = NoErr

\* a failed start in a batch whose hand-off succeeds
StartFailureWitness ==
    /\ OnlyToggle(last, "features/1")
    /\ Enabled(last.updates[ProductASMFeatures]["features/1"])
    /\ ~last.startedBefore
    /\ last.startErr # NoErr
    /\ last.swapErr = NoErr
    /\ ~started

\* every override has a non-empty id or a non-empty target list
OverridesComply(f) ==
    \A i \in 1..Len(f.Overrides) :
        Len(f.Overrides[i].ID) > 0 \/ Len(f.Overrides[i].RulesTarget.elems) > 0

\* every exclusion has non-empty conditions, inputs or targets
ExclusionsComply(f) ==
    \A i \in 1..Len(f.Exclusions) :
        \/ Len(f.Exclusions[i].Conditions) > 0
        \/ Len(f.Exclusions[i].Inputs) > 0
        \/ Len(f.Exclusions[i].RulesTarget) > 0

\* C19: fragment validation.  validate() returns true exactly when every
\* override entry has a non-empty id or a non-empty target list and every
\* exclusion entry has non-empty conditions, inputs or target list; an
\* override with an empty id and a present but empty target list makes it
\* return false.
ValidateExact ==
    (pf.phase = "validate" /\ pf.done) =>
        pf.ok = (OverridesComply(pf.f) /\ ExclusionsComply(pf.f))

\* C20: initial base.  newRuleset(raw) returns a manager without edits
\* whose base is the embedded default when raw is absent or does not parse,
\* and otherwise has, for every top-level field, the value of the supplied
\* document, the empty value when the document omits the field.
InitialBase ==
    (pf.phase = "new" /\ pf.done) =>
        /\ pf.r.edits = EmptyMap
        /\ pf.r.basePath = ""
        /\ pf.r.base = IF pf.rules.kind = "doc"
                       THEN Unmarshal(pf.rules.doc, ZeroFragment)
                       ELSE defaultRulesFragment

\* the entries of field k in all the edits, the edits taken in the order ord
RECURSIVE EditEntries(_, _, _, _)
EditEntries(edits, k, ord, i) ==
    IF i > Len(ord) THEN <<>>
    ELSE edits[ord[i]][k] \o EditEntries(edits, k, ord, i + 1)

\* s is the list head followed by the entries of tail, in whatever order
HeadThenEntries(s, head, tail) ==
    /\ Len(s) = Len(head) + Len(tail)
    /\ SubSeq(s, 1, Len(head)) = head
    /\ SameEntries(SubSeq(s, Len(head) + 1, Len(s)), tail)

\* C21: compile concatenation.  After compile(), overrides, exclusions and
\* actions of the compiled document are each the base's list followed by
\* the entries of that list in every edit, each entry as often as the edits
\* hold it, and version, metadata and rules are the base's.
CompileConcatenation ==
    Len(cp.outs) > 0 =>
        LET ord == CHOOSE o \in Perms(DOMAIN cp.r.edits) : TRUE
        IN /\ \A k \in {"Overrides", "Exclusions", "Actions"} :
                HeadThenEntries(cp.r.latest[k], cp.r.base[k], EditEntries(cp.r.edits, k, ord, 1))
           /\ \A k \in {"Version", "Metadata", "Rules"} : cp.r.latest[k] = cp.r.base[k]

\* a compiled ruleset with two edits over a base that has an exclusion
CompileConcatenationWitness ==
    /\ Len(cp.outs) > 0
    /\ {"asm/1", "asm/2"} \subseteq DOMAIN cp.r.edits
    /\ cp.r.edits["asm/1"] # cp.r.edits["asm/2"]
    /\ Len(cp.r.base.Exclusions) > 0
    /\ Len(cp.r.latest.Exclusions) = 4
    /\ Len(cp.r.latest.Actions) = 1

\* C22: rules and rules data never come from edits.  The document compiled
\* by a batch has the rules and the rules data of the working copy's base
\* (the embedded default's rules when the base had none), whatever the edits
\* hold, the "asmdata" edit of a rules-data batch included.
RulesFromBaseOnly ==
    last.called =>
        /\ last.compiled.latest.Rules = last.compiled.base.Rules
        /\ last.compiled.latest.RulesData = last.compiled.base.RulesData
        /\ last.compiled.base.RulesData = last.staged.base.RulesData
        /\ last.compiled.base.Rules =
              IF Len(last.staged.base.Rules) = 0 THEN defaultRulesFragment.Rules
              ELSE last.staged.base.Rules
        /\ "Rules" \in DOMAIN last.data /\ last.data.Rules = last.compiled.base.Rules
        /\ "RulesData" \notin DOMAIN last.data

\* a rules-data batch that stored merged entries in the "asmdata" edit
RulesFromBaseOnlyWitness ==
    /\ last.called
    /\ ProductASMData \in DOMAIN last.updates
    /\ Len(last.staged.edits["asmdata"].RulesData) > 0
    /\ last.compiled.latest.RulesData = <<>>

\* C23: base-override handling with a single config.  The removal marker
\* leaves the working copy with the embedded default as base and an empty
\* basePath; a payload that fails to parse gets the error status of the
\* parse failure and leaves base and basePath as committed; a payload that
\* parses becomes the base, its path the basePath, its status acknowledged.
SingleBaseOverride ==
    \A q \in DOMAIN ConfigsOf(last, ProductASMDD) :
        DOMAIN last.updates[ProductASMDD] = {q} =>
            LET data == last.updates[ProductASMDD][q]
            IN /\ data.kind = "nil" =>
                     /\ last.staged.base = defaultRulesFragment
                     /\ last.staged.basePath = ""
               /\ data.kind = "bad" =>
                     /\ last.computed[q] = ErrorStatus(UnmarshalErr(data))
                     /\ last.staged.base = last.prev.base
                     /\ last.staged.basePath = last.prev.basePath
               /\ data.kind = "doc" =>
                     /\ last.staged.base = Unmarshal(data.doc, ZeroFragment)
                     /\ last.staged.basePath = q
                     /\ last.computed[q] = AckStatus

\* the removal marker of the config that had supplied the committed base
SingleBaseOverrideWitness ==
    /\ DOMAIN ConfigsOf(last, ProductASMDD) = {"dd/1"}
    /\ last.updates[ProductASMDD]["dd/1"] = NilPayload
    /\ last.prev.basePath = "dd/1"
    /\ last.prev.base = Unmarshal(BaseRemote, ZeroFragment)
    /\ last.staged.base = defaultRulesFragment
    /\ last.staged.basePath = ""

\* the bases a manager has without a base-override config: the embedded
\* default or the initial local document
LocalBases == {newRuleset(rules).base : rules \in LocalRules}

\* C24: basePath invariant.  The committed manager's basePath is empty
\* exactly when its base is the embedded default or the initial local
\* document, and otherwise names a base-override config of which the base
\* is the document.
BasePathInvariant ==
    /\ rulesManager.basePath = "" <=> rulesManager.base \in LocalBases
    /\ rulesManager.basePath # "" =>
          \E data \in PayloadsOf(rulesManager.basePath) :
             data.kind = "doc" /\ rulesManager.base = Unmarshal(data.doc, ZeroFragment)

\* the expirations entries gives the value v
ExpirationsOf(entries, v) ==
    {entries[i].Expiration : i \in {j \in 1..Len(entries) : entries[j].Value = v}}

\* the longest-lived of them: 0 (no expiry) first, else the largest
LongestLived(exps) ==
    IF 0 \in exps THEN 0 ELSE CHOOSE e \in exps : \A d \in exps : d <= e

ValuesOf(entries) == {entries[i].Value : i \in 1..Len(entries)}

\* C25: pairwise merge is a deduplicated union.  mergeRulesDataEntries(e1,
\* e2) returns one record per value of e1 or e2 and none for another value;
\* a value that only one input holds gets the longest-lived of the
\* expirations that input gives it (its expiration when it occurs once).
DeduplicatedUnion ==
    mg.phase \in {"fwd", "both"} =>
        /\ ValuesOf(mg.fwd) = ValuesOf(mg.e1) \cup ValuesOf(mg.e2)
        /\ Len(mg.fwd) = Cardinality(ValuesOf(mg.e1) \cup ValuesOf(mg.e2))
        /\ \A v \in ValuesOf(mg.e1) \ ValuesOf(mg.e2) :
              AsMap(mg.fwd)[v] = LongestLived(ExpirationsOf(mg.e1, v))
        /\ \A v \in ValuesOf(mg.e2) \ ValuesOf(mg.e1) :
              AsMap(mg.fwd)[v] = LongestLived(ExpirationsOf(mg.e2, v))

\* C26: rules-data parse failure.  A rules-data config whose payload fails
\* to parse gets the error status of the parse failure and adds nothing to
\* the merged rules data, which are what the other configs of the batch
\* merge to; each of the others has the status it has without that config.
RulesDataParseFailure ==
    \A q \in DOMAIN ConfigsOf(last, ProductASMData) :
        last.updates[ProductASMData][q].kind = "bad" =>
            /\ last.computed[q] = ErrorStatus(UnmarshalErr(last.updates[ProductASMData][q]))
            /\ last.staged.edits["asmdata"].RulesData \in MergedWithout(last, q)
            /\ \A o \in DOMAIN last.updates[ProductASMData] \ {q} :
                  last.computed[o] =
                    mergeRulesDataStatuses(Delete(last.updates[ProductASMData], q))[o]

\* an unparsable config next to one whose two entries are merged
RulesDataParseFailureWitness ==
    /\ DOMAIN ConfigsOf(last, ProductASMData) = {"data/1", "data/2"}
    /\ last.updates[ProductASMData]["data/1"] = BadPayload
    /\ last.updates[ProductASMData]["data/2"] = DocPayload(DataB)
    /\ last.staged.edits["asmdata"].RulesData = DataB.rules_data
    /\ last.computed["data/1"].State = StateError
    /\ last.computed["data/2"] = AckStatus

\* C27: unrecognised category.  A batch with a category of an unsubscribed
\* product leaves the working copy, the statuses computed and the engine's
\* activation state as the batch without that category does, and no config
\* of the category has an error status; alone in its batch it changes
\* neither the working copy nor the activation state.
UnrecognisedIgnored ==
    (last.called /\ ProductOther \in DOMAIN last.updates) =>
        LET rest == Delete(last.updates, ProductOther)
        IN /\ \E startOK \in BOOLEAN, md \in MergedData(rest) :
                LET loc == locals(clone(last.prev), last.startedBefore, rest, startOK, md)
                IN /\ loc.r = last.staged
                   /\ loc.statuses = last.computed
                   /\ loc.added = last.added
                   /\ loc.started = started
           /\ \A q \in DOMAIN last.updates[ProductOther] :
                q \in DOMAIN last.statuses => last.statuses[q].State # StateError
           /\ DOMAIN rest = {} =>
                /\ SameManager(last.staged, last.prev)
                /\ started = last.startedBefore

\* an unsubscribed product next to an ASM config that adds an edit
UnrecognisedIgnoredWitness ==
    /\ last.called
    /\ DOMAIN last.updates = {ProductOther, ProductASM}
    /\ "asm/1" \in last.added
    /\ "asm/1" \notin DOMAIN last.prev.edits
    /\ last.computed["asm/1"] = AckStatus
    /\ last.swapErr # NoErr

\* the entries of field k that the document data carries
DocEntries(data, k) == IF k \in DOMAIN data THEN Range(data[k]) ELSE {}

\* C28: the hand-off reflects the whole batch.  The document handed to the
\* engine is the serialisation of compile() run on the working copy as the
\* categories left it: it carries the exclusions and actions of every edit
\* of the working copy, those added by the batch included, none of an edit
\* the batch removed, and it is the document the engine holds when it
\* accepts it.
HandOffWholeBatch ==
    last.called =>
        /\ \E order \in Perms(DOMAIN last.staged.edits) :
              /\ last.compiled = compile(last.staged, order)
              /\ last.data = raw(last.compiled)
        /\ \A k \in {"Exclusions", "Actions"} :
              DocEntries(last.data, k) =
                Range(last.compiled.base[k])
                  \cup UNION {Range(last.staged.edits[p][k]) : p \in DOMAIN last.staged.edits}
        /\ last.swapErr = NoErr => wafRules = last.data

\* a batch that adds an edit whose exclusion the cached document lacks
HandOffWholeBatchWitness ==
    /\ last.called
    /\ "asm/1" \in last.added
    /\ ExclA \notin Range(last.prev.latest.Exclusions)
    /\ ExclA \in DocEntries(last.data, "Exclusions")
    /\ ProductASMDD \in DOMAIN last.updates
    /\ last.staged.base # last.prev.base

\* C29: activation is not rolled back with the rules.  When the hand-off of
\* a batch fails, the start or stop its one ASM_FEATURES config caused
\* stays in effect, the config's status is the error of the hand-off, and
\* the committed manager is the one from before the batch.
ActivationNotRolledBack ==
    (last.called /\ last.swapErr # NoErr) =>
        \A q \in DOMAIN ConfigsOf(last, ProductASMFeatures) :
            OnlyToggle(last, q) =>
                LET rawp == last.updates[ProductASMFeatures][q]
                IN /\ (Enabled(rawp) /\ ~last.startedBefore /\ last.startErr = NoErr) => started
                   /\ (rawp.kind = "doc" /\ ~rawp.doc.enabled) => ~started
                   /\ rawp.kind = "nil" => ~started
                   /\ last.statuses[q] = ErrorStatus(last.swapErr)
                   /\ SameManager(rulesManager, last.prev)

\* a start that succeeded in a batch whose hand-off failed after staging an edit
ActivationNotRolledBackWitness ==
    /\ last.called /\ last.swapErr # NoErr
    /\ OnlyToggle(last, "features/1")
    /\ Enabled(last.updates[ProductASMFeatures]["features/1"])
    /\ ~last.startedBefore
    /\ started
    /\ last.computed["features/1"] = AckStatus
    /\ last.staged.edits # last.prev.edits
    /\ rulesManager.edits = last.prev.edits

\* C30: the synthetic rules-data edit is replaced, not accumulated.  A
\* batch with the ASM_DATA category leaves under "asmdata" an edit that
\* holds nothing but rules data, which are a merge of the configs of that
\* batch (empty when none of them carries a document that parses); a batch
\* without the category leaves the "asmdata" edit as committed.
AsmdataReplaced ==
    last.called =>
        IF ProductASMData \in DOMAIN last.updates
        THEN /\ "asmdata" \in DOMAIN last.staged.edits
             /\ \E m \in mergeRulesData(last.updates[ProductASMData]) :
                   last.staged.edits["asmdata"] = [ZeroFragment EXCEPT !.RulesData = m.rulesData]
             /\ (\A q \in DOMAIN last.updates[ProductASMData] :
                    last.updates[ProductASMData][q].kind # "doc")
                   => last.staged.edits["asmdata"].RulesData = <<>>
        ELSE /\ "asmdata" \in DOMAIN last.staged.edits <=> "asmdata" \in DOMAIN last.prev.edits
             /\ "asmdata" \in DOMAIN last.prev.edits =>
                   last.staged.edits["asmdata"] = last.prev.edits["asmdata"]

\* a batch of one removal marker after a batch that had committed rules data
AsmdataReplacedWitness ==
    /\ last.called
    /\ "asmdata" \in DOMAIN last.prev.edits
    /\ Len(last.prev.edits["asmdata"].RulesData) > 0
    /\ IsSingle(last.updates, ProductASMData, "data/1", NilPayload)
    /\ last.staged.edits["asmdata"].RulesData = <<>>

\* the ASM payload is rejected: it fails to parse or to validate
Rejected(data) ==
    data.kind = "bad" \/ (data.kind = "doc" /\ ~validate(Unmarshal(data.doc, ZeroFragment)))

\* C31: a rejected fragment edit keeps the earlier edit.  When an ASM config
\* whose path has an edit in the committed manager arrives with a payload
\* that fails to parse or to validate, the working copy holds that edit
\* unchanged and the compiled document, the one handed to the engine,
\* carries its overrides, exclusions and actions.
RejectedKeepsEdit ==
    \A q \in DOMAIN ConfigsOf(last, ProductASM) :
        (Rejected(last.updates[ProductASM][q]) /\ q \in DOMAIN last.prev.edits) =>
            /\ q \in DOMAIN last.staged.edits
            /\ last.staged.edits[q] = last.prev.edits[q]
            /\ q \notin last.added
            /\ \A k \in {"Overrides", "Exclusions", "Actions"} :
                  Range(last.prev.edits[q][k]) \subseteq Range(last.compiled.latest[k])
            /\ \A k \in {"Exclusions", "Actions"} :
                  Range(last.prev.edits[q][k]) \subseteq DocEntries(last.data, k)

\* a payload failing validate() for a path whose edit holds an exclusion
RejectedKeepsEditWitness ==
    /\ last.called
    /\ "asm/1" \in DOMAIN ConfigsOf(last, ProductASM)
    /\ last.updates[ProductASM]["asm/1"] = DocPayload(FragInvalid)
    /\ "asm/1" \in DOMAIN last.prev.edits
    /\ ExclA \in Range(last.prev.edits["asm/1"].Exclusions)
    /\ ExclA \in DocEntries(last.data, "Exclusions")

\* C32: compile() leaves its inputs unchanged.  A compile() of a ruleset
\* whose base has a rule changes neither the base nor the edits, and when
\* it follows a compile() without a mutation in between, the compiled
\* overrides, exclusions and actions have the lengths they had.
CompileKeepsInputs ==
    [][(Len(cp'.outs) > Len(cp.outs) /\ Len(cp.r.base.Rules) > 0) =>
          /\ cp'.r.base = cp.r.base
          /\ cp'.r.basePath = cp.r.basePath
          /\ cp'.r.edits = cp.r.edits
          /\ Len(cp.outs) > 0 =>
                \A k \in {"Overrides", "Exclusions", "Actions"} :
                    Len(cp'.r.latest[k]) = Len(cp.r.latest[k])]_vars

\* a ruleset compiled twice, with edits that append exclusions and actions
CompileKeepsInputsWitness ==
    /\ Len(cp.outs) = MaxCompiles
    /\ Len(cp.r.base.Rules) > 0
    /\ {"asm/1", "asm/2"} \subseteq DOMAIN cp.r.edits
    /\ Len(cp.r.latest.Exclusions) > Len(cp.r.base.Exclusions)
    /\ Len(cp.r.latest.Actions) > Len(cp.r.base.Actions)

\* C33: genApplyStatus(ack, err) is the error status with the error's
\* message when err is present, whatever ack is; without an error it is
\* acknowledged for ack true and unacknowledged for ack false, with an empty
\* message.  statusesFromUpdate gives that status to every path of the
\* update and has no other key.
StatusOfAckAndErr ==
    (pf.phase = "status" /\ pf.done) =>
        /\ pf.err # NoErr => pf.status = [State |-> "error", Error |-> pf.err]
        /\ (pf.err = NoErr /\ pf.ack) => pf.status = [State |-> "acknowledged", Error |-> ""]
        /\ (pf.err = NoErr /\ ~pf.ack) => pf.status = [State |-> "unacknowledged", Error |-> ""]
        /\ DOMAIN pf.statuses = DOMAIN pf.u
        /\ \A q \in DOMAIN pf.u : pf.statuses[q] = pf.status

\* an error given together with ack, for an update of two configs
StatusOfAckAndErrWitness ==
    /\ pf.phase = "status" /\ pf.done
    /\ pf.ack /\ pf.err # NoErr
    /\ Cardinality(DOMAIN pf.u) = 2
    /\ \A q \in DOMAIN pf.u : q \in DOMAIN pf.statuses /\ pf.statuses[q].State = StateError

====
